---- MODULE Spec2Model ----
(***************************************************************************)
(* Model of ComfyUI-S3-Utils (s3_utils.py): the path-safety check, the     *)
(* local path resolver, the S3 fetch, the fallback orchestrator and the    *)
(* single-slot LoRA cache of the LoraLoaderFallbackS3 node.                *)
(*                                                                         *)
(* Strings that the code inspects character by character (paths, folder    *)
(* names) are sequences of one-character strings.  A full path, the result *)
(* of os.path.join(directory, relative name), is the pair                  *)
(* <<directory, relative name>>.  POSIX path semantics are assumed.        *)
(***************************************************************************)
EXTENDS Integers, Sequences, FiniteSets, TLC

\* ------------------------------------------------------------------ bounds

\* longest string drawn as an input of ensure_path_safety
MaxLen == 3
\* calls of load_lora made on one node instance
MaxCalls == 4
\* changes the environment makes to the filesystem during a behaviour
MaxEnv == 1
\* calls of load_lora made on each of two node instances called concurrently
MaxPar == 1

\* ----------------------------------------------------------------- strings

Chars == {"a", ".", "~", "/"}

RECURSIVE StringsOfLen(_)
StringsOfLen(n) ==
    IF n = 0 THEN {<<>>}
    ELSE {Append(s, c) : s \in StringsOfLen(n - 1), c \in Chars}

Strings == UNION {StringsOfLen(n) : n \in 0..MaxLen}

\* sub in s (Python's substring test): sub occurs at some offset of s
StartsWith(s, sub) ==
    /\ Len(sub) <= Len(s)
    /\ SubSeq(s, 1, Len(sub)) = sub

RECURSIVE In(_, _)
In(sub, s) ==
    IF StartsWith(s, sub) THEN TRUE
    ELSE IF s = <<>> THEN FALSE
    ELSE In(sub, Tail(s))

\* ------------------------------------------------------------- exceptions

NoExc == [type |-> "None", line |-> 0]
Exc(type, line) == [type |-> type, line |-> line]

\* ------------------------------------------------------ ensure_path_safety

\* a variant that rejects a single dot
ensure_path_safety_one_dot(path) ==
    IF In(<<".">>, path) \/ In(<<"~">>, path)
    THEN [exc |-> Exc("ValueError", 93), val |-> <<>>]
    ELSE [exc |-> NoExc, val |-> path]

\* ensure_path_safety(path): raises ValueError if ".." or "~" is in path,
\* otherwise returns path
ensure_path_safety(path) ==
    IF In(<<".", ".">>, path) \/ In(<<"~">>, path)
    THEN [exc |-> Exc("ValueError", 93), val |-> <<>>]
    ELSE [exc |-> NoExc, val |-> path]

\* ------------------------------------------------- os.path on filenames

\* s.split("/"): the pieces between slashes, empty pieces included
RECURSIVE split(_, _, _)
split(s, cur, acc) ==
    IF s = <<>> THEN Append(acc, cur)
    ELSE IF Head(s) = "/" THEN split(Tail(s), <<>>, Append(acc, cur))
    ELSE split(Tail(s), Append(cur, Head(s)), acc)

\* posixpath.normpath of an absolute path, as its list of components: empty
\* and "." components are dropped, ".." pops the component before it and is
\* dropped at the root
RECURSIVE normpath(_, _)
normpath(comps, new_comps) ==
    IF comps = <<>> THEN new_comps
    ELSE LET comp == Head(comps) IN
         IF comp = <<>> \/ comp = <<".">>
         THEN normpath(Tail(comps), new_comps)
         ELSE IF comp # <<".", ".">>
         THEN normpath(Tail(comps), Append(new_comps, comp))
         ELSE IF new_comps # <<>>
         THEN normpath(Tail(comps), SubSeq(new_comps, 1, Len(new_comps) - 1))
         ELSE normpath(Tail(comps), new_comps)

\* "/".join(comps)
RECURSIVE join(_)
join(comps) ==
    IF comps = <<>> THEN <<>>
    ELSE IF Len(comps) = 1 THEN Head(comps)
    ELSE Head(comps) \o <<"/">> \o join(Tail(comps))

\* os.path.relpath(os.path.join("/", filename), "/"): os.path.join roots a
\* relative filename at "/" and keeps an absolute one; relpath normalises the
\* result and returns its components below "/", or "." when there are none
relpath(filename) ==
    LET rel_list == normpath(split(filename, <<>>, <<>>), <<>>) IN
    IF rel_list = <<>> THEN <<".">> ELSE join(rel_list)

\* ---------------------------------------------------------- folder_paths

Loras == <<"l", "o", "r", "a", "s">>
Unet == <<"u", "n", "e", "t">>
DiffusionModels ==
    <<"d", "i", "f", "f", "u", "s", "i", "o", "n", "_", "m", "o", "d", "e", "l", "s">>
Clip == <<"c", "l", "i", "p">>
TextEncoders == <<"t", "e", "x", "t", "_", "e", "n", "c", "o", "d", "e", "r", "s">>
Home == <<"~">>

\* folder_paths.map_legacy: the two legacy folder names are renamed, every
\* other name is kept
map_legacy(folder_name) ==
    IF folder_name = Unet THEN DiffusionModels
    ELSE IF folder_name = Clip THEN TextEncoders
    ELSE folder_name

\* the folder names a caller passes to the resolver
FolderNames == {Loras, Unet, Clip, Home}

\* search-directory configurations (folder_names_and_paths: name -> the
\* ordered directories, folders[0] in the code)
Configs ==
    { [c \in {Loras, DiffusionModels} |->
          IF c = Loras THEN <<"D1", "D2">> ELSE <<"D2">>],
      [c \in {Loras, DiffusionModels} |->
          IF c = Loras THEN <<"D2", "D1">> ELSE <<"D1", "D2">>],
      [c \in {DiffusionModels} |-> <<"D1">>],
      [c \in {Loras} |-> <<>>] }

\* the configuration of the node specifications: the loras folder with two
\* directories
NodeConfig == [c \in {Loras} |-> <<"D1", "D2">>]

\* -------------------------------------------------------------- filesystem

NoPath == <<"", <<>>>>

\* os.path.join(x, filename), filename relative
path_join(x, filename) == <<x, filename>>

\* the paths whose kind the model tracks; every other path is absent, except a
\* search directory itself, which is a directory
FsPaths == {path_join(d, <<"a">>) : d \in {"D1", "D2"}}
NodeFsPaths == {path_join(d, f) : d \in {"D1", "D2"}, f \in {<<"a">>, <<"b">>}}

\* absent; a regular file with loadable content; a regular file whose content
\* does not load; a directory; a symlink that links nowhere
Kinds == {"absent", "file", "bad", "dir", "link"}

\* ------------------------------------------------------------------- state


VARIABLES
    safeIn,     \* the argument of a call of ensure_path_safety
    safeOut,    \* its outcome, or Pending before the call
    folder_names_and_paths, \* folder_paths.folder_names_and_paths
    fs,         \* the filesystem: tracked path -> kind
    envLeft,    \* filesystem changes the environment may still make
    pc,         \* per caller: where it stands in load_lora / get_full_path_or_raise
    req,        \* per caller: the arguments of the call in progress or last made
    resolved,   \* per caller: what get_full_path_simulate returned or raised
    fetched,    \* per caller: the get_lora_from_s3 calls of this call, in order
    ret,        \* per caller: what the last call returned or raised
    lora_path,  \* per caller: load_lora's local lora_path
    lora,       \* per caller: load_lora's local lora
    loaded_lora, \* per node instance: self.loaded_lora
    loads,      \* per node instance: calls of comfy.utils.load_torch_file made
    hist,       \* per node instance: the calls completed, whether each was made
                \* with a non-zero strength and returned, and if so their
                \* resolved paths in order
    quota       \* per node instance: the calls the host makes on it

vars == <<safeIn, safeOut, folder_names_and_paths, fs, envLeft, pc, req,
          resolved, fetched, ret, lora_path, lora, loaded_lora, loads, hist,
          quota>>

safeVars == <<safeIn, safeOut>>
nodeVars == <<folder_names_and_paths, fs, envLeft, pc, req, resolved, fetched,
              ret, lora_path, lora, loaded_lora, loads, hist, quota>>

Pending == [exc |-> Exc("Pending", 0), val |-> <<>>]

\* --------------------------------------------------------------- os.path

Kind(p) ==
    IF p \in DOMAIN fs THEN fs[p]
    ELSE IF p[2] = <<".">> THEN "dir"
    ELSE "absent"

\* os.path.exists
exists(p) == Kind(p) \in {"file", "bad", "dir"}

\* a variant that takes anything that exists for a file
isfile_exists(p) == exists(p)

\* os.path.isfile: a regular file, whatever its content
isfile(p) == Kind(p) \in {"file", "bad"}

\* os.path.islink, where isfile is false
islink(p) == Kind(p) = "link"

\* -------------------------------------------------- get_full_path_simulate

NotResolved ==
    [exc |-> Exc("NotCalled", 0), path |-> NoPath, exists |-> FALSE,
     probes |-> <<>>, warnings |-> <<>>]

Raised(e, probes, warnings) ==
    [exc |-> e, path |-> NoPath, exists |-> FALSE,
     probes |-> probes, warnings |-> warnings]

\* the loop over folders[0] (lines 67-72): the first directory whose candidate
\* is a file wins; probes are the paths handed to os.path.isfile, in order
RECURSIVE scan(_, _, _, _)
scan(dirs, filename, probes, warnings) ==
    IF dirs = <<>>
    THEN [found |-> FALSE, path |-> NoPath, probes |-> probes, warnings |-> warnings]
    ELSE LET full_path == path_join(Head(dirs), filename) IN
         IF isfile(full_path)
         THEN [found |-> TRUE, path |-> full_path,
               probes |-> Append(probes, full_path), warnings |-> warnings]
         ELSE scan(Tail(dirs), filename, Append(probes, full_path),
                   IF islink(full_path) THEN Append(warnings, full_path)
                   ELSE warnings)

\* the fallback to the first folder (lines 73-77)
fallback(folders, filename, probes, warnings) ==
    IF folders = <<>> THEN Raised(Exc("IndexError", 74), probes, warnings)
    ELSE LET full_path == path_join(folders[1], filename) IN
         IF ~isfile(full_path)
         THEN [exc |-> NoExc, path |-> full_path, exists |-> FALSE,
               probes |-> Append(probes, full_path), warnings |-> warnings]
         ELSE Raised(Exc("RuntimeError", 77), Append(probes, full_path), warnings)

\* a variant that reports the file missing instead of raising
unknown_folder_not_found(folder_name, filename) ==
    [exc |-> NoExc, path |-> path_join("", relpath(filename)), exists |-> FALSE,
     probes |-> <<>>, warnings |-> <<>>]

\* lines 63-64: a folder name that is not configured raises FileNotFoundError
unknown_folder(folder_name, filename) ==
    Raised(Exc("FileNotFoundError", 64), <<>>, <<>>)

get_full_path_simulate(folder_name, filename) ==
    LET safe_folder == ensure_path_safety(folder_name)
        safe_file == ensure_path_safety(filename)
    IN
    IF safe_folder.exc # NoExc THEN Raised(safe_folder.exc, <<>>, <<>>)
    ELSE IF safe_file.exc # NoExc THEN Raised(safe_file.exc, <<>>, <<>>)
    ELSE LET name == map_legacy(safe_folder.val) IN
         IF name \notin DOMAIN folder_names_and_paths
         THEN unknown_folder(name, safe_file.val)
         ELSE LET folders == folder_names_and_paths[name]
                  rel == relpath(safe_file.val)
                  sc == scan(folders, rel, <<>>, <<>>)
              IN
              IF sc.found
              THEN [exc |-> NoExc, path |-> sc.path, exists |-> TRUE,
                    probes |-> sc.probes, warnings |-> sc.warnings]
              ELSE fallback(folders, rel, sc.probes, sc.warnings)

\* -------------------------------------------------------- get_lora_from_s3

\* the module global s3_client: imported from s3_manager on line 12 and then
\* rebound to None on line 15
s3_client == "None"

Buckets == {"bk"}
Keys == {"k1", "k2"}
NodeKeys == {"k1"}

\* the objects of the store
S3Objects == {<<"bk", "k1">>}

\* get_lora_from_s3(bucket_name, object_key, save_path), with net = the
\* transfer goes through.  Every exception of the body is caught and turned
\* into False: the attribute lookup on a None client, head_object on a missing
\* object, a failed transfer, a destination that cannot be written.  On
\* success the destination is a regular file.
get_lora_from_s3(bucket_name, object_key, save_path, net) ==
    IF s3_client = "None" THEN [ok |-> FALSE, fs |-> fs]
    ELSE IF <<bucket_name, object_key>> \notin S3Objects THEN [ok |-> FALSE, fs |-> fs]
    ELSE IF ~net THEN [ok |-> FALSE, fs |-> fs]
    ELSE IF Kind(save_path) = "dir" THEN [ok |-> FALSE, fs |-> fs]
    ELSE [ok |-> TRUE,
          fs |-> [p \in DOMAIN fs \cup {save_path} |->
                     IF p = save_path THEN "file" ELSE fs[p]]]

\* ------------------------------------------------------------ call frames

Nodes == {1, 2}

NoPayload == [node |-> 0, id |-> 0, src |-> NoPath]
None == <<>>

NoReq ==
    [caller |-> "none", folder_name |-> <<>>, filename |-> <<>>,
     bucket_name |-> "", object_key |-> "", held |-> None, loads |-> 0]

NotCalled == [exc |-> Exc("NotCalled", 0), out |-> "none", path |-> NoPath, payload |-> NoPayload]
Running == [exc |-> Exc("Running", 0), out |-> "none", path |-> NoPath, payload |-> NoPayload]

\* the call of caller n ends: it returns or raises r
Finish(n, caller, r) ==
    /\ pc' = [pc EXCEPT ![n] = "idle"]
    /\ ret' = [ret EXCEPT ![n] = r]
    /\ hist' = IF caller = "load_lora"
               THEN [hist EXCEPT ![n] =
                       [calls |-> @.calls + 1,
                        clean |-> @.clean /\ r.out = "ok",
                        paths |-> IF @.clean /\ r.out = "ok"
                                  THEN Append(@.paths, r.path) ELSE <<>>]]
               ELSE hist

Raise(n, caller, e) ==
    Finish(n, caller, [exc |-> e, out |-> "raise", path |-> NoPath, payload |-> NoPayload])

\* the call of caller n goes on at npc
Continue(n, npc) ==
    /\ pc' = [pc EXCEPT ![n] = npc]
    /\ ret' = [ret EXCEPT ![n] = Running]
    /\ UNCHANGED hist

\* ---------------------------------------------------- get_full_path_or_raise

\* get_full_path_or_raise returns full_path (lines 87, 88): to a direct caller
\* the call ends; in load_lora it is assigned to lora_path (line 129)
ReturnPath(n, caller, full_path) ==
    IF caller = "load_lora"
    THEN /\ Continue(n, "cache")
         /\ lora_path' = [lora_path EXCEPT ![n] = full_path]
    ELSE /\ Finish(n, caller, [exc |-> NoExc, out |-> "ok", path |-> full_path,
                               payload |-> NoPayload])
         /\ UNCHANGED lora_path

\* a variant with the test inverted
needs_fetch_inverted(file_exists) == file_exists

\* line 84: the fetch is made when the file does not exist
needs_fetch(file_exists) == ~file_exists

\* lines 83-84 and 88: resolve, then return the path of an existing file or
\* go on to the fetch
EnterGetFullPathOrRaise(n, caller, folder_name, filename, bucket_name, object_key) ==
    LET r == get_full_path_simulate(folder_name, filename) IN
    /\ req' = [req EXCEPT ![n] =
                 [caller |-> caller, folder_name |-> folder_name,
                  filename |-> filename, bucket_name |-> bucket_name,
                  object_key |-> object_key,
                  held |-> IF caller = "load_lora" THEN loaded_lora[n] ELSE None,
                  loads |-> loads[n]]]
    /\ resolved' = [resolved EXCEPT ![n] = r]
    /\ fetched' = [fetched EXCEPT ![n] = <<>>]
    /\ IF r.exc # NoExc
       THEN Raise(n, caller, r.exc) /\ UNCHANGED lora_path
       ELSE IF needs_fetch(r.exists)
       THEN Continue(n, "fetch") /\ UNCHANGED lora_path
       ELSE ReturnPath(n, caller, r.path)

\* a variant that fetches again after a failure
after_fetch_retry(ok) == IF ok THEN "return" ELSE "fetch"

\* lines 85-87: a fetch that reports failure raises FileNotFoundError, one
\* that reports success returns the path
after_fetch(ok) == IF ok THEN "return" ELSE "raise"

\* lines 85-87: the fetch into the resolved path
Fetch(n) ==
    /\ pc[n] = "fetch"
    /\ \E net \in BOOLEAN :
          LET dest == resolved[n].path
              r == get_lora_from_s3(req[n].bucket_name, req[n].object_key, dest, net)
              nxt == after_fetch(r.ok)
          IN
          /\ fs' = r.fs
          /\ fetched' = [fetched EXCEPT ![n] =
                           Append(@, [bucket_name |-> req[n].bucket_name,
                                      object_key |-> req[n].object_key,
                                      save_path |-> dest, net |-> net,
                                      ok |-> r.ok])]
          /\ IF nxt = "return" THEN ReturnPath(n, req[n].caller, dest)
             ELSE IF nxt = "raise"
             THEN Raise(n, req[n].caller, Exc("FileNotFoundError", 86))
                  /\ UNCHANGED lora_path
             ELSE Continue(n, "fetch") /\ UNCHANGED lora_path
    /\ UNCHANGED <<safeVars, quota, folder_names_and_paths, envLeft, req, resolved,
                   lora, loaded_lora, loads>>

\* a caller of get_full_path_or_raise itself
DirectCall(n) ==
    /\ pc[n] = "idle"
    /\ ret[n] = NotCalled
    /\ \E folder_name \in FolderNames, filename \in Strings,
          bucket_name \in Buckets, object_key \in Keys :
          EnterGetFullPathOrRaise(n, "direct", folder_name, filename,
                                  bucket_name, object_key)
    /\ UNCHANGED <<safeVars, quota, folder_names_and_paths, fs, envLeft, lora,
                   loaded_lora, loads>>

InitFrames ==
    /\ pc = [n \in Nodes |-> "idle"]
    /\ req = [n \in Nodes |-> NoReq]
    /\ resolved = [n \in Nodes |-> NotResolved]
    /\ fetched = [n \in Nodes |-> <<>>]
    /\ ret = [n \in Nodes |-> NotCalled]
    /\ lora_path = [n \in Nodes |-> NoPath]
    /\ lora = [n \in Nodes |-> NoPayload]
    /\ loaded_lora = [n \in Nodes |-> None]
    /\ loads = [n \in Nodes |-> 0]
    /\ hist = [n \in Nodes |-> [calls |-> 0, clean |-> TRUE, paths |-> <<>>]]

\* ------------------------------------------------ LoraLoaderFallbackS3

LoraNames == {<<"a">>, <<"b">>, <<".", ".">>}
Strengths == {0, 1}

\* a variant that keeps the old tuple in the slot on a miss
cache_lookup_keep(slot, path) ==
    IF slot # None /\ slot[1] = path
    THEN [lora |-> slot[2], loaded_lora |-> slot]
    ELSE [lora |-> NoPayload, loaded_lora |-> slot]

\* a variant that takes any held tuple for a hit
cache_lookup_any(slot, path) ==
    IF slot # None
    THEN [lora |-> slot[2], loaded_lora |-> slot]
    ELSE [lora |-> NoPayload, loaded_lora |-> None]

\* a variant that never hits
cache_lookup_never(slot, path) ==
    [lora |-> NoPayload, loaded_lora |-> None]

\* lines 130-137: the look-up in the single slot.  A slot holding another
\* path is emptied, the old tuple dropped; the result is the local lora (None
\* on a miss) and the slot
cache_lookup(slot, path) ==
    IF slot # None
    THEN IF slot[1] = path
         THEN [lora |-> slot[2], loaded_lora |-> slot]
         ELSE [lora |-> NoPayload, loaded_lora |-> None]
    ELSE [lora |-> NoPayload, loaded_lora |-> None]

\* comfy.utils.load_torch_file(lora_path, safe_load=True) by node n, its k-th
\* load: a regular file with loadable content gives a new payload that
\* remembers the path it was read from; anything else raises
load_torch_file(n, k, path) ==
    IF Kind(path) = "file"
    THEN [exc |-> NoExc, payload |-> [node |-> n, id |-> k, src |-> path]]
    ELSE [exc |-> Exc("LoadError", 140), payload |-> NoPayload]

\* lines 125-129: load_lora up to the resolved lora_path
load_lora(n, lora_name, strength_model, strength_clip, bucket_name, object_key) ==
    /\ pc[n] = "idle"
    /\ hist[n].calls < quota[n]
    /\ IF strength_model = 0 /\ strength_clip = 0
       THEN /\ Finish(n, "load_lora", [exc |-> NoExc, out |-> "passthrough",
                                       path |-> NoPath, payload |-> NoPayload])
            /\ req' = [req EXCEPT ![n] =
                         [caller |-> "load_lora", folder_name |-> Loras,
                          filename |-> lora_name, bucket_name |-> bucket_name,
                          object_key |-> object_key, held |-> loaded_lora[n],
                          loads |-> loads[n]]]
            /\ resolved' = [resolved EXCEPT ![n] = NotResolved]
            /\ fetched' = [fetched EXCEPT ![n] = <<>>]
            /\ UNCHANGED lora_path
       ELSE EnterGetFullPathOrRaise(n, "load_lora", Loras, lora_name,
                                    bucket_name, object_key)
    /\ UNCHANGED <<safeVars, quota, folder_names_and_paths, fs, envLeft, lora,
                   loaded_lora, loads>>

LoadLora(n) ==
    \E lora_name \in LoraNames, strength_model \in Strengths,
       strength_clip \in Strengths, bucket_name \in Buckets, object_key \in NodeKeys :
       load_lora(n, lora_name, strength_model, strength_clip, bucket_name, object_key)

\* line 160: load_lora_model_only is load_lora with no clip and strength_clip 0
LoadLoraModelOnly(n) ==
    \E lora_name \in LoraNames, strength_model \in Strengths,
       bucket_name \in Buckets, object_key \in NodeKeys :
       load_lora(n, lora_name, strength_model, 0, bucket_name, object_key)

\* lines 130-137
CacheLookup(n) ==
    /\ pc[n] = "cache"
    /\ LET c == cache_lookup(loaded_lora[n], lora_path[n]) IN
       /\ lora' = [lora EXCEPT ![n] = c.lora]
       /\ loaded_lora' = [loaded_lora EXCEPT ![n] = c.loaded_lora]
       /\ Continue(n, IF c.lora = NoPayload THEN "load" ELSE "apply")
    /\ UNCHANGED <<safeVars, quota, folder_names_and_paths, fs, envLeft, req, resolved,
                   fetched, lora_path, loads>>

\* lines 139-141
LoadTorchFile(n) ==
    /\ pc[n] = "load"
    /\ LET r == load_torch_file(n, loads[n] + 1, lora_path[n]) IN
       /\ loads' = [loads EXCEPT ![n] = @ + 1]
       /\ IF r.exc = NoExc
          THEN /\ lora' = [lora EXCEPT ![n] = r.payload]
               /\ loaded_lora' = [loaded_lora EXCEPT ![n] = <<lora_path[n], r.payload>>]
               /\ lora_path' = lora_path
               /\ Continue(n, "apply")
          ELSE /\ lora' = [lora EXCEPT ![n] = NoPayload]
               /\ lora_path' = [lora_path EXCEPT ![n] = NoPath]
               /\ UNCHANGED loaded_lora
               /\ Raise(n, "load_lora", r.exc)
    /\ UNCHANGED <<safeVars, quota, folder_names_and_paths, fs, envLeft, req, resolved,
                   fetched>>

\* lines 143-144: the weights are applied and the patched models returned
ApplyLora(n) ==
    /\ pc[n] = "apply"
    /\ Finish(n, "load_lora", [exc |-> NoExc, out |-> "ok", path |-> lora_path[n],
                               payload |-> lora[n]])
    /\ lora' = [lora EXCEPT ![n] = NoPayload]
    /\ lora_path' = [lora_path EXCEPT ![n] = NoPath]
    /\ UNCHANGED <<safeVars, quota, folder_names_and_paths, fs, envLeft, req, resolved,
                   fetched, loaded_lora, loads>>

\* the environment changes what is at a path
EnvWrite ==
    /\ envLeft > 0
    /\ \E p \in DOMAIN fs, k \in Kinds \ {"link"} :
          /\ k # fs[p]
          /\ fs' = [fs EXCEPT ![p] = k]
    /\ envLeft' = envLeft - 1
    /\ UNCHANGED <<safeVars, quota, folder_names_and_paths, pc, req, resolved,
                   fetched, ret, lora_path, lora, loaded_lora, loads, hist>>

InitNoSafe ==
    /\ safeIn = <<>>
    /\ safeOut = Pending

InitResolve ==
    /\ InitNoSafe
    /\ InitFrames
    /\ quota = [n \in Nodes |-> 0]
    /\ folder_names_and_paths \in Configs
    /\ fs \in [FsPaths -> Kinds \ {"bad"}]
    /\ envLeft = 0

NextResolve ==
    \/ DirectCall(1)
    \/ Fetch(1)

SpecResolve == InitResolve /\ [][NextResolve]_vars

NodeStep(n) ==
    \/ LoadLora(n)
    \/ LoadLoraModelOnly(n)
    \/ Fetch(n)
    \/ CacheLookup(n)
    \/ LoadTorchFile(n)
    \/ ApplyLora(n)

\* two node instances called concurrently, on a filesystem nothing else changes
Init ==
    /\ InitNoSafe
    /\ InitFrames
    /\ folder_names_and_paths = NodeConfig
    /\ fs \in [NodeFsPaths -> {"absent", "file"}]
    /\ envLeft = 0
    /\ quota = [n \in Nodes |-> MaxPar]

Next == \E n \in Nodes : NodeStep(n)

Spec == Init /\ [][Next]_vars

\* one node instance called again and again, on a filesystem the environment
\* changes
InitCache ==
    /\ InitNoSafe
    /\ InitFrames
    /\ folder_names_and_paths = NodeConfig
    /\ fs \in [NodeFsPaths -> {"absent", "file"}]
    /\ envLeft = MaxEnv
    /\ quota = [n \in Nodes |-> IF n = 1 THEN MaxCalls ELSE 0]

NextCache ==
    \/ NodeStep(1)
    \/ EnvWrite

SpecCache == InitCache /\ [][NextCache]_vars

\* --------------------------------------------- ensure_path_safety, applied

InitSafe ==
    /\ safeIn \in Strings
    /\ safeOut = Pending
    /\ InitFrames
    /\ folder_names_and_paths = NodeConfig
    /\ fs = [p \in FsPaths |-> "absent"]
    /\ envLeft = 0
    /\ quota = [n \in Nodes |-> 0]

CallEnsurePathSafety ==
    /\ safeOut = Pending
    /\ safeOut' = ensure_path_safety(safeIn)
    /\ UNCHANGED <<safeIn, nodeVars>>

NextSafe == CallEnsurePathSafety

SpecSafe == InitSafe /\ [][NextSafe]_vars

\* C5: ensure_path_safety raises ValueError (InvalidPath) for every string
\* with two adjacent dots or a tilde anywhere, and returns every other string
\* unchanged, leaving its argument as it was.
HasDotDot(s) == \E i \in 1..(Len(s) - 1) : s[i] = "." /\ s[i + 1] = "."
HasTilde(s) == \E i \in 1..Len(s) : s[i] = "~"

C5_EnsureSafe ==
    safeOut # Pending =>
        IF HasDotDot(safeIn) \/ HasTilde(safeIn)
        THEN safeOut.exc = Exc("ValueError", 93)
        ELSE safeOut.exc = NoExc /\ safeOut.val = safeIn

\* a string with a single dot and no forbidden token was returned unchanged
C5_Witness ==
    /\ safeOut # Pending
    /\ safeOut.exc = NoExc
    /\ In(<<".">>, safeIn)
    /\ safeOut.val = safeIn

\* ------------------------------------------------------ the resolver's claims

SafeStr(s) == ~HasDotDot(s) /\ ~HasTilde(s)

Called(n) == req[n].caller # "none"

\* the request is for a configured folder with at least one search directory
Known(q) ==
    /\ map_legacy(q.folder_name) \in DOMAIN folder_names_and_paths
    /\ folder_names_and_paths[map_legacy(q.folder_name)] # <<>>

SearchDirs(q) == folder_names_and_paths[map_legacy(q.folder_name)]

\* the candidate of the i-th search directory
Candidate(q, i) == path_join(SearchDirs(q)[i], relpath(q.filename))

\* the search directories whose candidate is a regular file
FileHits(q) ==
    {i \in 1..Len(SearchDirs(q)) : Kind(Candidate(q, i)) \in {"file", "bad"}}

Min(S) == CHOOSE i \in S : \A j \in S : i <= j

C6_Original ==
    \A n \in Nodes :
        (req[n].caller = "direct" /\ SafeStr(req[n].folder_name)
            /\ SafeStr(req[n].filename)
            /\ req[n].folder_name \notin DOMAIN folder_names_and_paths) =>
            /\ resolved[n].exc = Exc("FileNotFoundError", 64)
            /\ resolved[n].probes = <<>>
            /\ fetched[n] = <<>>

\* the legacy renaming, as the amended claim states it
Renamed(folder_name) ==
    CASE folder_name = <<"u", "n", "e", "t">> -> DiffusionModels
      [] folder_name = <<"c", "l", "i", "p">> -> TextEncoders
      [] OTHER -> folder_name

\* C6, amended: a folder name whose renamed form (unet is diffusion_models,
\* clip is text_encoders, any other name itself) is not a key of the
\* configuration raises FileNotFoundError with no filesystem check made, and
\* get_full_path_or_raise raises it with no fetch attempted.
C6_UnknownFolder ==
    \A n \in Nodes :
        (req[n].caller = "direct" /\ SafeStr(req[n].folder_name)
            /\ SafeStr(req[n].filename)
            /\ Renamed(req[n].folder_name) \notin DOMAIN folder_names_and_paths) =>
            /\ resolved[n].exc = Exc("FileNotFoundError", 64)
            /\ resolved[n].probes = <<>>
            /\ fetched[n] = <<>>
            /\ pc[n] = "idle"
            /\ ret[n].exc = Exc("FileNotFoundError", 64)

\* the legacy name clip, whose renamed form is not configured either
C6_Witness ==
    /\ req[1].caller = "direct"
    /\ req[1].folder_name = Clip
    /\ SafeStr(req[1].filename)
    /\ Loras \in DOMAIN folder_names_and_paths
    /\ ret[1].exc = Exc("FileNotFoundError", 64)
    /\ fetched[1] = <<>>

\* C9, as claimed: when no candidate is a regular file and the fallback path
\* exists as something else (a directory), get_full_path_simulate raises the
\* RuntimeError of line 77.
C9_Claim ==
    \A n \in Nodes :
        LET q == req[n] IN
        (q.caller = "direct" /\ SafeStr(q.folder_name) /\ SafeStr(q.filename)
            /\ Known(q) /\ FileHits(q) = {}
            /\ Candidate(q, 1) \in DOMAIN fs
            /\ Kind(Candidate(q, 1)) = "dir") =>
            resolved[n].exc = Exc("RuntimeError", 77)

\* ------------------------------------------------- the orchestrator's claims

\* get_full_path_or_raise returned path to the caller of n
Returned(n, path) ==
    IF req[n].caller = "direct"
    THEN pc[n] = "idle" /\ ret[n].exc = NoExc /\ ret[n].path = path
    ELSE \/ pc[n] \in {"cache", "load", "apply"} /\ lora_path[n] = path
         \/ pc[n] = "idle" /\ (ret[n].out = "ok" => ret[n].path = path)

\* C1: when the resolver reports the file missing, get_full_path_or_raise
\* makes exactly one fetch, into the first search directory's candidate; a
\* fetch that reports success makes it return that path, one that reports
\* failure makes it raise the FileNotFoundError of line 86 with no further
\* fetch.
C1_OneFetch ==
    \A n \in Nodes :
        LET q == req[n]
            r == resolved[n]
            f == fetched[n]
        IN
        (Called(n) /\ r.exc = NoExc /\ ~r.exists) =>
            \/ pc[n] = "fetch" /\ f = <<>>
            \/ /\ pc[n] # "fetch"
               /\ Len(f) = 1
               /\ f[1].save_path = Candidate(q, 1)
               /\ f[1].bucket_name = q.bucket_name
               /\ f[1].object_key = q.object_key
               /\ IF f[1].ok THEN Returned(n, Candidate(q, 1))
                  ELSE pc[n] = "idle" /\ ret[n].exc = Exc("FileNotFoundError", 86)

\* a missing file whose one fetch failed
C1_Witness ==
    /\ req[1].caller = "direct"
    /\ resolved[1].exc = NoExc
    /\ ~resolved[1].exists
    /\ Len(fetched[1]) = 1
    /\ fetched[1][1].save_path = path_join("D2", <<"a">>)
    /\ ~fetched[1][1].ok
    /\ pc[1] = "idle"
    /\ ret[1].exc = Exc("FileNotFoundError", 86)

\* C4, as claimed: a fetch of an object that is in the bucket, whose transfer
\* goes through into a destination that is not a directory, returns True and
\* leaves a regular file at the destination, which get_full_path_or_raise
\* then returns.
C4_Claim ==
    \A n \in Nodes :
        \A i \in 1..Len(fetched[n]) :
            LET f == fetched[n][i] IN
            (<<f.bucket_name, f.object_key>> \in S3Objects /\ f.net
                /\ Kind(f.save_path) # "dir") =>
                /\ f.ok
                /\ Kind(f.save_path) = "file"
                /\ Returned(n, f.save_path)

\* C10: two node instances that resolved the same missing file for the same
\* object each make their own fetch into the same destination: nothing
\* deduplicates the two fetches or keeps one instance out while the other
\* fetches.
SameMissing(m, n) ==
    /\ m # n
    /\ Called(m) /\ Called(n)
    /\ req[m].filename = req[n].filename
    /\ req[m].bucket_name = req[n].bucket_name
    /\ req[m].object_key = req[n].object_key
    /\ resolved[m].exc = NoExc /\ ~resolved[m].exists
    /\ resolved[n].exc = NoExc /\ ~resolved[n].exists

C10_NoDedup ==
    \A m \in Nodes, n \in Nodes :
        SameMissing(m, n) =>
            /\ resolved[m].path = resolved[n].path
            /\ pc[m] # "fetch" => /\ Len(fetched[m]) = 1
                                  /\ fetched[m][1].save_path = resolved[n].path

\* both instances stand before their fetch of the same object into the same
\* destination
C10_Witness ==
    /\ SameMissing(1, 2)
    /\ pc[1] = "fetch"
    /\ pc[2] = "fetch"
    /\ resolved[1].path = resolved[2].path

\* ------------------------------------------------------- the cache's claims

\* the loads a single slot makes for a sequence of requested paths: one for
\* the first request and one whenever the path differs from the one before
Switches(paths) ==
    Cardinality({i \in 1..Len(paths) : i = 1 \/ paths[i] # paths[i - 1]})

\* C3: on a node instance whose calls were all made with a non-zero strength
\* and all returned, the loads made are one per change of the resolved path:
\* A, A makes one load and A, B, A makes three.
C3_Loads ==
    \A n \in Nodes :
        (pc[n] = "idle" /\ hist[n].clean) => loads[n] = Switches(hist[n].paths)

\* A, A, B, A was requested and three loads were made
C3_Witness ==
    /\ pc[1] = "idle"
    /\ hist[1].clean
    /\ Len(hist[1].paths) = 4
    /\ hist[1].paths[1] = hist[1].paths[2]
    /\ hist[1].paths[3] # hist[1].paths[2]
    /\ hist[1].paths[4] = hist[1].paths[1]
    /\ loads[1] = 3

\* C7, as claimed: a request made in Holding(p, w) whose resolved path is p
\* makes no filesystem check, no fetch and no load, returns w and leaves the
\* slot as it was.
C7_Original ==
    \A n \in Nodes :
        (pc[n] = "idle" /\ req[n].caller = "load_lora" /\ req[n].held # None
            /\ resolved[n].exc = NoExc /\ resolved[n].path = req[n].held[1]) =>
            /\ resolved[n].probes = <<>>
            /\ fetched[n] = <<>>
            /\ loads[n] = req[n].loads
            /\ ret[n].payload = req[n].held[2]
            /\ loaded_lora[n] = req[n].held

\* the call of n was made in Holding(p, w) and get_full_path_or_raise
\* returned p to it
HitCall(n) ==
    /\ pc[n] = "idle"
    /\ req[n].caller = "load_lora"
    /\ req[n].held # None
    /\ ret[n].out = "ok"
    /\ ret[n].path = req[n].held[1]

\* C7, amended: a request made in Holding(p, w) to which
\* get_full_path_or_raise returns p makes no load, returns w and leaves the
\* slot holding (p, w), whatever has become of the file at p; the resolver's
\* filesystem checks are made all the same.
C7_Hit ==
    \A n \in Nodes :
        HitCall(n) =>
            /\ loads[n] = req[n].loads
            /\ ret[n].payload = req[n].held[2]
            /\ loaded_lora[n] = req[n].held
            /\ resolved[n].probes # <<>>

\* a hit on a path whose file no longer loads
C7_Witness ==
    /\ HitCall(1)
    /\ Kind(ret[1].path) = "bad"
    /\ ret[1].payload.src = ret[1].path

\* the payloads a node instance references
Refs(n) ==
    (IF loaded_lora[n] = None THEN {} ELSE {loaded_lora[n][2]})
        \cup ({lora[n]} \ {NoPayload})

\* C8: the slot is empty or holds one pair (p, payload) whose payload a load
\* of p by this instance produced; the slot is empty while a load is made; the
\* instance never references two payloads; a call that ended in a failed load
\* leaves the slot empty.
C8_Slot ==
    \A n \in Nodes :
        /\ \/ loaded_lora[n] = None
           \/ /\ Len(loaded_lora[n]) = 2
              /\ loaded_lora[n][2].src = loaded_lora[n][1]
              /\ loaded_lora[n][2].node = n
              /\ loaded_lora[n][2].id \in 1..loads[n]
        /\ pc[n] = "load" => loaded_lora[n] = None
        /\ Cardinality(Refs(n)) <= 1
        /\ (pc[n] = "idle" /\ ret[n].exc = Exc("LoadError", 140)) =>
               loaded_lora[n] = None

\* a miss in Holding(p, w) whose load failed
C8_Witness ==
    /\ pc[1] = "idle"
    /\ req[1].held # None
    /\ ret[1].exc = Exc("LoadError", 140)
    /\ loaded_lora[1] = None

====
